---- MODULE Spec2Model ----
(***************************************************************************)
(* Binder Print: binder hole geometry and content-area resolution.         *)
(*                                                                         *)
(* Lengths are fixed-point integers in hundredths of a millimetre (the     *)
(* source works in mm with at most two decimals: 9.7, 5.5, 50.8, 12.85),   *)
(* so 9.7 mm is 970 and 210 mm is 21000.  Every halving the source does    *)
(* is exact on these values for whole-millimetre sheet heights.            *)
(***************************************************************************)
EXTENDS Integers, Sequences, FiniteSets, TLC

VARIABLES call, ret, gen, ingest, app

vars == <<call, ret, gen, ingest, app>>

(* Sheet heights, in whole mm, that getHolePositions is applied to. *)
MinHeight == 100
MaxHeight == 400

(* src/types/index.ts: PAPER_SIZES *)
PAPER_SIZES ==
  [A4 |-> [width |-> 21000, height |-> 29700],
   A5 |-> [width |-> 14800, height |-> 21000]]

PaperSize == {"A4", "A5"}
PageSide == {"left", "right"}
BinderType ==
  {"a5-20-hole", "a5-2-hole", "a5-6-hole-filofax", "a5-6-hole-standard", "a4-4-hole"}

(* An id outside the BinderType union: the union is erased at run time. *)
UnknownIds == {"a4-2-hole"}

(* Hole diameter constant (6mm) *)
HOLE_DIAMETER == 600

(* JavaScript undefined, as the value of a missing BINDER_SPECS property. *)
undefined ==
  [id |-> "undefined", paperSize |-> "undefined", holeCount |-> 0,
   holeDiameter |-> 0, edgeDistance |-> 0]

(* ---------------- per-standard getHolePositions ---------------- *)
(* Array.from({ length: n }, (_, i) => at(i)) is the 1-based sequence    *)
(* [k \in 1..n |-> at(k - 1)].                                           *)

a5_20_hole_short(pageHeight) ==
  LET pitch == 970
      totalSpan == pitch * 19
      startY == (pageHeight - totalSpan) \div 2
      at(i) == startY + i * pitch
  IN  [k \in 1..19 |-> at(k - 1)]

a5_20_hole_getHolePositions(pageHeight) ==
  LET pitch == 970
      totalSpan == pitch * 19
      startY == (pageHeight - totalSpan) \div 2
      at(i) == startY + i * pitch
  IN  [k \in 1..20 |-> at(k - 1)]

a5_2_hole_getHolePositions(pageHeight) ==
  LET spacing == 8000
      centerY == pageHeight \div 2
  IN  <<centerY - spacing \div 2, centerY + spacing \div 2>>

a5_6_hole_filofax_noPitch(pageHeight) ==
  LET pitch == 1900
      centralGap == 5080
      centerY == pageHeight \div 2
      topGroupCenter == centerY - centralGap \div 2 - pitch
      bottomGroupCenter == centerY + centralGap \div 2
  IN  <<topGroupCenter - pitch, topGroupCenter, topGroupCenter + pitch,
        bottomGroupCenter - pitch, bottomGroupCenter, bottomGroupCenter + pitch>>

a5_6_hole_filofax_getHolePositions(pageHeight) ==
  LET pitch == 1900
      centralGap == 5080
      centerY == pageHeight \div 2
      topGroupCenter == centerY - centralGap \div 2 - pitch
      bottomGroupCenter == centerY + centralGap \div 2 + pitch
  IN  <<topGroupCenter - pitch, topGroupCenter, topGroupCenter + pitch,
        bottomGroupCenter - pitch, bottomGroupCenter, bottomGroupCenter + pitch>>

a5_6_hole_standard_filofaxGap(pageHeight) ==
  LET pitch == 1900
      centralGap == 5080
      centerY == pageHeight \div 2
      topGroupCenter == centerY - centralGap \div 2 - pitch
      bottomGroupCenter == centerY + centralGap \div 2 + pitch
  IN  <<topGroupCenter - pitch, topGroupCenter, topGroupCenter + pitch,
        bottomGroupCenter - pitch, bottomGroupCenter, bottomGroupCenter + pitch>>

a5_6_hole_standard_getHolePositions(pageHeight) ==
  LET pitch == 1900
      centralGap == 7000
      centerY == pageHeight \div 2
      topGroupCenter == centerY - centralGap \div 2 - pitch
      bottomGroupCenter == centerY + centralGap \div 2 + pitch
  IN  <<topGroupCenter - pitch, topGroupCenter, topGroupCenter + pitch,
        bottomGroupCenter - pitch, bottomGroupCenter, bottomGroupCenter + pitch>>

a4_4_hole_fourGaps(pageHeight) ==
  LET spacing == 8000
      totalSpan == spacing * 4
      startY == (pageHeight - totalSpan) \div 2
      at(i) == startY + i * spacing
  IN  [k \in 1..4 |-> at(k - 1)]

a4_4_hole_getHolePositions(pageHeight) ==
  LET spacing == 8000
      totalSpan == spacing * 3
      startY == (pageHeight - totalSpan) \div 2
      at(i) == startY + i * spacing
  IN  [k \in 1..4 |-> at(k - 1)]

(* The data fields of the five catalog entries. *)
BINDER_SPECS ==
  [b \in BinderType |->
     CASE b = "a5-20-hole" ->
            [id |-> b, paperSize |-> "A5", holeCount |-> 20,
             holeDiameter |-> HOLE_DIAMETER, edgeDistance |-> 550]
       [] b = "a5-2-hole" ->
            [id |-> b, paperSize |-> "A5", holeCount |-> 2,
             holeDiameter |-> HOLE_DIAMETER, edgeDistance |-> 1200]
       [] b = "a5-6-hole-filofax" ->
            [id |-> b, paperSize |-> "A5", holeCount |-> 6,
             holeDiameter |-> HOLE_DIAMETER, edgeDistance |-> 1200]
       [] b = "a5-6-hole-standard" ->
            [id |-> b, paperSize |-> "A5", holeCount |-> 6,
             holeDiameter |-> HOLE_DIAMETER, edgeDistance |-> 1200]
       [] b = "a4-4-hole" ->
            [id |-> b, paperSize |-> "A4", holeCount |-> 4,
             holeDiameter |-> HOLE_DIAMETER, edgeDistance |-> 1100]]

(* BINDER_SPECS[type].getHolePositions(pageHeight) *)
getHolePositions(type, pageHeight) ==
  CASE type = "a5-20-hole" -> a5_20_hole_getHolePositions(pageHeight)
    [] type = "a5-2-hole" -> a5_2_hole_getHolePositions(pageHeight)
    [] type = "a5-6-hole-filofax" -> a5_6_hole_filofax_getHolePositions(pageHeight)
    [] type = "a5-6-hole-standard" -> a5_6_hole_standard_getHolePositions(pageHeight)
    [] type = "a4-4-hole" -> a4_4_hole_getHolePositions(pageHeight)

(* getBinderSpec: a plain property read, undefined for a missing key. *)
getBinderSpec(type) ==
  IF type \in DOMAIN BINDER_SPECS THEN BINDER_SPECS[type] ELSE undefined

NoArea == [width |-> 0, height |-> 0, offsetX |-> 0, offsetY |-> 0]

NoCall ==
  [op |-> "none", binderType |-> "none", paperSize |-> "none",
   pageSide |-> "none", enablePadding |-> FALSE, pageHeight |-> 0]

NoRet ==
  [kind |-> "none", error |-> "none", holes |-> <<>>, area |-> NoArea,
   branch |-> "none", spec |-> undefined]

(* ---------------- getContentArea ---------------- *)

holeMargin_alwaysPadded(spec, enablePadding) ==
  LET padding == 500
  IN  spec.edgeDistance + spec.holeDiameter \div 2 + padding

(* const padding = enablePadding ? 5 : 0; holeMargin = edgeDistance + holeDiameter / 2 + padding *)
holeMargin(spec, enablePadding) ==
  LET padding == IF enablePadding THEN 500 ELSE 0
  IN  spec.edgeDistance + spec.holeDiameter \div 2 + padding

contentAreaBranch_anyMismatch(paperSize, spec) ==
  IF paperSize = spec.paperSize THEN "same"
  ELSE IF paperSize # spec.paperSize THEN "a5OnA4"
  ELSE "default"

(* Which arm of the if / else if / else that computes the offsets is run. *)
contentAreaBranch(paperSize, spec) ==
  IF paperSize = spec.paperSize THEN "same"
  ELSE IF paperSize = "A4" /\ spec.paperSize = "A5" THEN "a5OnA4"
  ELSE "default"

contentOffsetX_sidesSwapped(branch, paper, binderPaper, pageSide, margin) ==
  CASE branch = "same" -> IF pageSide = "left" THEN margin ELSE 0
    [] branch = "a5OnA4" ->
         LET centred == (paper.width - binderPaper.width) \div 2
         IN  IF pageSide = "right" THEN centred + margin ELSE centred
    [] branch = "default" -> IF pageSide = "right" THEN margin ELSE 0

(* offsetX as assigned in the arm that runs. *)
contentOffsetX(branch, paper, binderPaper, pageSide, margin) ==
  CASE branch = "same" -> IF pageSide = "left" THEN 0 ELSE margin
    [] branch = "a5OnA4" ->
         LET centred == (paper.width - binderPaper.width) \div 2
         IN  IF pageSide = "right" THEN centred + margin ELSE centred
    [] branch = "default" -> IF pageSide = "right" THEN margin ELSE 0

contentOffsetY_notCentred(branch, paper, binderPaper) ==
  CASE branch = "same" -> 0
    [] branch = "a5OnA4" -> paper.height - binderPaper.height
    [] branch = "default" -> 0

(* offsetY as assigned in the arm that runs. *)
contentOffsetY(branch, paper, binderPaper) ==
  CASE branch = "same" -> 0
    [] branch = "a5OnA4" -> (paper.height - binderPaper.height) \div 2
    [] branch = "default" -> 0

Returned(area, branch) ==
  [kind |-> "return", error |-> "none", area |-> area, branch |-> branch]

Thrown(error) ==
  [kind |-> "throw", error |-> error, area |-> NoArea, branch |-> "none"]

getContentArea_targetWidth(binderType, paperSize, pageSide, enablePadding) ==
  LET spec == getBinderSpec(binderType)
  IN  IF spec = undefined THEN Thrown("TypeError")
      ELSE
        LET paper == PAPER_SIZES[paperSize]
            binderPaper == PAPER_SIZES[spec.paperSize]
            margin == holeMargin(spec, enablePadding)
            contentWidth == paper.width - margin
            contentHeight == binderPaper.height
            branch == contentAreaBranch(paperSize, spec)
        IN  Returned(
              [width |-> contentWidth, height |-> contentHeight,
               offsetX |-> contentOffsetX(branch, paper, binderPaper, pageSide, margin),
               offsetY |-> contentOffsetY(branch, paper, binderPaper)],
              branch)

(* getContentArea: reading spec.paperSize of an undefined spec throws a  *)
(* TypeError; otherwise the area and the arm that produced its offsets.  *)
getContentArea(binderType, paperSize, pageSide, enablePadding) ==
  LET spec == getBinderSpec(binderType)
  IN  IF spec = undefined THEN Thrown("TypeError")
      ELSE
        LET paper == PAPER_SIZES[paperSize]
            binderPaper == PAPER_SIZES[spec.paperSize]
            margin == holeMargin(spec, enablePadding)
            contentWidth == binderPaper.width - margin
            contentHeight == binderPaper.height
            branch == contentAreaBranch(paperSize, spec)
        IN  Returned(
              [width |-> contentWidth, height |-> contentHeight,
               offsetX |-> contentOffsetX(branch, paper, binderPaper, pageSide, margin),
               offsetY |-> contentOffsetY(branch, paper, binderPaper)],
              branch)

(* ---------------- PDF drawing (pdfGenerator / outlineGenerator) ---------------- *)
(* PDF points are kept in units of 1/635 pt: mm / 25.4 * 72 of a length   *)
(* of h hundredths of a mm is h * 18 / 635 pt, that is h * 18 units.      *)
(* Pixel sizes are whole pixels; scale is in percent (100 is scale 1).    *)

(* const mmToPoints = (mm) => (mm / 25.4) * 72 *)
mmToPoints(mm) == mm * 18

(* const pxToMm = (px, dpi) => (px / dpi) * 25.4 *)
pxToMm(px, dpi) == (px * 2540) \div dpi

(* The eight crop-mark segments of a trim rectangle, two per corner. *)
cropMarks(areaX, areaY, areaWidth, areaHeight) ==
  LET cropMarkLength == mmToPoints(500)
      cropMarkOffset == mmToPoints(300)
      corners == << [x |-> areaX, y |-> areaY],
                    [x |-> areaX + areaWidth, y |-> areaY],
                    [x |-> areaX, y |-> areaY + areaHeight],
                    [x |-> areaX + areaWidth, y |-> areaY + areaHeight] >>
      hMark(corner) ==
        LET isLeft == corner.x = areaX
            hStart == IF isLeft THEN corner.x - cropMarkOffset - cropMarkLength
                      ELSE corner.x + cropMarkOffset
            hEnd == IF isLeft THEN corner.x - cropMarkOffset
                    ELSE corner.x + cropMarkOffset + cropMarkLength
        IN  [x1 |-> hStart, y1 |-> corner.y, x2 |-> hEnd, y2 |-> corner.y]
      vMark(corner) ==
        LET isBottom == corner.y = areaY
            vStart == IF isBottom THEN corner.y - cropMarkOffset - cropMarkLength
                      ELSE corner.y + cropMarkOffset
            vEnd == IF isBottom THEN corner.y - cropMarkOffset
                    ELSE corner.y + cropMarkOffset + cropMarkLength
        IN  [x1 |-> corner.x, y1 |-> vStart, x2 |-> corner.x, y2 |-> vEnd]
  IN  [k \in 1..8 |-> IF k % 2 = 1 THEN hMark(corners[(k + 1) \div 2])
                      ELSE vMark(corners[k \div 2])]

(* What one outline call draws for its pageSide argument: trim rectangle, *)
(* hole circles, crop marks.                                             *)
OutlineMarks(path, pageSide, areaX, areaY, areaWidth, areaHeight, holeX, holeRadius, holePositions) ==
  [path |-> path, pageSide |-> pageSide,
   rect |-> [x |-> areaX, y |-> areaY, width |-> areaWidth, height |-> areaHeight],
   circles |-> [k \in 1..Len(holePositions) |->
                  [x |-> holeX, y |-> areaY + mmToPoints(holePositions[k]),
                   size |-> holeRadius]],
   lines |-> cropMarks(areaX, areaY, areaWidth, areaHeight)]

(* outlineGenerator.ts drawOutline *)
drawOutline(binderType, paperSize, pageSide, is2Up, position) ==
  LET spec == BINDER_SPECS[binderType]
      paper == PAPER_SIZES[paperSize]
      binderPaper == PAPER_SIZES[spec.paperSize]
      pageWidth == mmToPoints(paper.width)
      pageHeight == mmToPoints(paper.height)
      targetWidth == mmToPoints(binderPaper.width)
      targetHeight == mmToPoints(binderPaper.height)
      twoUp == is2Up /\ paperSize = "A4" /\ spec.paperSize = "A5"
      centredX == (pageWidth - targetWidth) \div 2
      areaX == IF twoUp THEN (IF position = "top" THEN 0 ELSE targetWidth)
               ELSE pageWidth - centredX - targetWidth
      areaY == IF twoUp THEN (pageWidth - targetHeight) \div 2
               ELSE (pageHeight - targetHeight) \div 2
      holePositions == getHolePositions(binderType, binderPaper.height)
      holeRadius == mmToPoints(spec.holeDiameter) \div 2
      edgeDistance == mmToPoints(spec.edgeDistance)
      holeX == IF pageSide = "left" THEN areaX + targetWidth - edgeDistance
               ELSE areaX + edgeDistance
  IN  OutlineMarks("drawOutline", pageSide, areaX, areaY, targetWidth, targetHeight,
                   holeX, holeRadius, holePositions)

drawOutlineAt_notMirrored(binderType, pageSide, areaX, areaY, areaWidth, areaHeight) ==
  LET spec == BINDER_SPECS[binderType]
      binderPaper == PAPER_SIZES[spec.paperSize]
      holeRadius == mmToPoints(spec.holeDiameter) \div 2
      edgeDistance == mmToPoints(spec.edgeDistance)
      holePositions == getHolePositions(binderType, binderPaper.height)
      holeX == IF pageSide = "left" THEN areaX + areaWidth - edgeDistance
               ELSE areaX + edgeDistance
  IN  OutlineMarks("drawOutlineAt", pageSide, areaX, areaY, areaWidth, areaHeight,
                   holeX, holeRadius, holePositions)

(* pdfGenerator drawOutlineAt (2-up mode) *)
drawOutlineAt(binderType, pageSide, areaX, areaY, areaWidth, areaHeight) ==
  LET spec == BINDER_SPECS[binderType]
      binderPaper == PAPER_SIZES[spec.paperSize]
      holeRadius == mmToPoints(spec.holeDiameter) \div 2
      edgeDistance == mmToPoints(spec.edgeDistance)
      holePositions == getHolePositions(binderType, binderPaper.height)
      holeX == IF pageSide = "left" THEN areaX + edgeDistance
               ELSE areaX + areaWidth - edgeDistance
  IN  OutlineMarks("drawOutlineAt", pageSide, areaX, areaY, areaWidth, areaHeight,
                   holeX, holeRadius, holePositions)

(* pdfPage.drawImage of one content page. *)
ImageDraw(contentPage, x, y, width, height) ==
  [page |-> contentPage.id, x |-> x, y |-> y, width |-> width, height |-> height]

(* pdfGenerator drawContentPage (the same text in both generatePdf variants) *)
drawContentPage(contentPage, binderType, paperSize, pageSide, enablePadding) ==
  LET paper == PAPER_SIZES[paperSize]
      pageHeightPt == mmToPoints(paper.height)
      contentArea == getContentArea(binderType, paperSize, pageSide, enablePadding).area
      position == contentPage.position
      imgWidthMm == pxToMm(contentPage.originalWidth, 150)
      imgHeightMm == pxToMm(contentPage.originalHeight, 150)
      scaledWidth == (imgWidthMm * position.scale) \div 100
      scaledHeight == (imgHeightMm * position.scale) \div 100
      imgX == mmToPoints(contentArea.offsetX + position.x)
      imgY == mmToPoints(contentArea.offsetY + position.y)
  IN  ImageDraw(contentPage, imgX, pageHeightPt - imgY - mmToPoints(scaledHeight),
                mmToPoints(scaledWidth), mmToPoints(scaledHeight))

(* pdfGenerator drawContentPageAt (2-up mode) *)
drawContentPageAt(contentPage, binderType, pageSide, enablePadding, areaX, areaY, areaWidth, areaHeight) ==
  LET spec == BINDER_SPECS[binderType]
      padding == IF enablePadding THEN 500 ELSE 0
      margin == mmToPoints(spec.edgeDistance + spec.holeDiameter \div 2 + padding)
      position == contentPage.position
      imgWidthMm == pxToMm(contentPage.originalWidth, 150)
      imgHeightMm == pxToMm(contentPage.originalHeight, 150)
      scaledWidthPt == mmToPoints((imgWidthMm * position.scale) \div 100)
      scaledHeightPt == mmToPoints((imgHeightMm * position.scale) \div 100)
      imgX == areaX + mmToPoints(position.x)
                + (IF pageSide = "right" THEN margin ELSE 0)
  IN  ImageDraw(contentPage, imgX,
                areaY + areaHeight - scaledHeightPt - mmToPoints(position.y),
                scaledWidthPt, scaledHeightPt)

(* pdfDoc.addPage([width, height]) followed by the draw calls on it. *)
PdfPage(kind, width, height, images, outlines) ==
  [kind |-> kind, width |-> width, height |-> height,
   images |-> images, outlines |-> outlines]

(* ---------------- generatePdf: inputs and job state ---------------- *)

(* Most content pages handed to one generatePdf call. *)
MaxPages == 4

(* Positions a page can carry: the ingestion default and an edited one. *)
DefaultPosition == [x |-> 0, y |-> 0, scale |-> 100]
EditedPosition == [x |-> 1000, y |-> -500, scale |-> 50]

(* A ContentPage: id, pixel size, position and its own page side. *)
ContentPage(id, pageSide, position) ==
  [id |-> id, type |-> "image", originalWidth |-> 1500, originalHeight |-> 2100,
   position |-> position, pageSide |-> pageSide]

(* The page lists of GeneratePdfOptions.pages, ids in list order: every   *)
(* page has its own side, and at most one of the first two pages (the     *)
(* top and the bottom slot of the first 2-up sheet) has been edited.      *)
PageLists ==
  UNION { { [k \in 1..n |->
               ContentPage(k, side[k],
                           IF k = e THEN EditedPosition ELSE DefaultPosition)] :
              side \in [1..n -> PageSide], e \in {0, 1, 2} \cap 0..n } :
          n \in 0..MaxPages }

GenIdle ==
  [pc |-> "idle", variant |-> "none", pages |-> <<>>, binderType |-> "none",
   paperSize |-> "none", pageSide |-> "none", enablePadding |-> FALSE,
   use2Up |-> FALSE, i |-> 0, doc |-> <<>>]

(* const use2Up = paperSize === 'A4' && spec.paperSize === 'A5' && pages.length > 1 *)
use2Up(pages, binderType, paperSize) ==
  paperSize = "A4" /\ BINDER_SPECS[binderType].paperSize = "A5" /\ Len(pages) > 1

singleSheets_outlineFirst(contentPage, binderType, paperSize, pageSide, enablePadding) ==
  LET paper == PAPER_SIZES[paperSize]
      pageWidthPt == mmToPoints(paper.width)
      pageHeightPt == mmToPoints(paper.height)
  IN  << PdfPage("outline", pageWidthPt, pageHeightPt, <<>>,
                 << drawOutline(binderType, paperSize, pageSide, FALSE, "single") >>),
         PdfPage("content", pageWidthPt, pageHeightPt,
                 << drawContentPage(contentPage, binderType, paperSize, pageSide,
                                    enablePadding) >>, <<>>) >>

(* One pass of the single-mode loop: the content page, then its outline page. *)
singleSheets(contentPage, binderType, paperSize, pageSide, enablePadding) ==
  LET paper == PAPER_SIZES[paperSize]
      pageWidthPt == mmToPoints(paper.width)
      pageHeightPt == mmToPoints(paper.height)
  IN  << PdfPage("content", pageWidthPt, pageHeightPt,
                 << drawContentPage(contentPage, binderType, paperSize, pageSide,
                                    enablePadding) >>, <<>>),
         PdfPage("outline", pageWidthPt, pageHeightPt, <<>>,
                 << drawOutline(binderType, paperSize, pageSide, FALSE, "single") >>) >>

twoUpSheets_outlineAtLeft(pages, i, binderType, pageSide, enablePadding) ==
  LET paper == PAPER_SIZES["A4"]
      a5Paper == PAPER_SIZES["A5"]
      pageWidthPt == mmToPoints(paper.width)
      pageHeightPt == mmToPoints(paper.height)
      a5WidthPt == mmToPoints(a5Paper.width)
      a5HeightPt == mmToPoints(a5Paper.height)
      hasSecond == i + 2 <= Len(pages)
      first == drawContentPageAt(pages[i + 1], binderType, pageSide, enablePadding,
                                 0, pageHeightPt - a5HeightPt, a5WidthPt, a5HeightPt)
      firstOutline == drawOutlineAt(binderType, pageSide, 0, 0, a5WidthPt, a5HeightPt)
  IN  << PdfPage("content", pageWidthPt, pageHeightPt,
                 IF hasSecond
                 THEN << first,
                         drawContentPageAt(pages[i + 2], binderType, pageSide,
                                           enablePadding, 0, 0, a5WidthPt, a5HeightPt) >>
                 ELSE << first >>, <<>>),
         PdfPage("outline", pageWidthPt, pageHeightPt, <<>>,
                 IF hasSecond
                 THEN << firstOutline,
                         drawOutlineAt(binderType, pageSide, 0,
                                       pageHeightPt - a5HeightPt, a5WidthPt, a5HeightPt) >>
                 ELSE << firstOutline >>) >>

(* One pass of the generate2UpPages loop over pages[i], pages[i + 1]      *)
(* (0-based i): the shared content sheet, then the shared outline sheet.  *)
twoUpSheets(pages, i, binderType, pageSide, enablePadding) ==
  LET paper == PAPER_SIZES["A4"]
      a5Paper == PAPER_SIZES["A5"]
      pageWidthPt == mmToPoints(paper.width)
      pageHeightPt == mmToPoints(paper.height)
      a5WidthPt == mmToPoints(a5Paper.width)
      a5HeightPt == mmToPoints(a5Paper.height)
      hasSecond == i + 2 <= Len(pages)
      first == drawContentPageAt(pages[i + 1], binderType, pageSide, enablePadding,
                                 0, pageHeightPt - a5HeightPt, a5WidthPt, a5HeightPt)
      firstOutline == drawOutlineAt(binderType, pageSide, pageWidthPt - a5WidthPt, 0,
                                    a5WidthPt, a5HeightPt)
  IN  << PdfPage("content", pageWidthPt, pageHeightPt,
                 IF hasSecond
                 THEN << first,
                         drawContentPageAt(pages[i + 2], binderType, pageSide,
                                           enablePadding, 0, 0, a5WidthPt, a5HeightPt) >>
                 ELSE << first >>, <<>>),
         PdfPage("outline", pageWidthPt, pageHeightPt, <<>>,
                 IF hasSecond
                 THEN << firstOutline,
                         drawOutlineAt(binderType, pageSide, pageWidthPt - a5WidthPt,
                                       pageHeightPt - a5HeightPt, a5WidthPt, a5HeightPt) >>
                 ELSE << firstOutline >>) >>

(* ---------------- contentProcessor: processFiles ---------------- *)

(* Most files in one upload batch, and the largest startIndex tried. *)
MaxFiles == 3
MaxStartIndex == 3

(* The files of a batch: PDFs of one or two pages, images, files of an    *)
(* unsupported type; ok is whether decoding (pdf.js, Image) succeeds, and *)
(* width, height are the pixel size the decoder reports (img.width,       *)
(* viewport.width): 1500 x 2100, or an image that decodes to width 0.     *)
Files ==
  {[type |-> "application/pdf", numPages |-> n, ok |-> TRUE,
    width |-> 1500, height |-> 2100] : n \in 1..2}
    \cup {[type |-> "application/pdf", numPages |-> 1, ok |-> FALSE,
           width |-> 1500, height |-> 2100],
          [type |-> "image/png", numPages |-> 1, ok |-> TRUE,
           width |-> 1500, height |-> 2100],
          [type |-> "image/png", numPages |-> 1, ok |-> TRUE,
           width |-> 0, height |-> 2100],
          [type |-> "image/png", numPages |-> 1, ok |-> FALSE,
           width |-> 1500, height |-> 2100],
          [type |-> "text/plain", numPages |-> 0, ok |-> TRUE,
           width |-> 0, height |-> 0]}

FileLists == UNION { [1..n -> Files] : n \in 0..MaxFiles }

IngestIdle ==
  [pc |-> "idle", files |-> <<>>, startIndex |-> 0, currentIndex |-> 0,
   file |-> 0, allPages |-> <<>>, pageIdCounter |-> 0]

getAlternatingPageSide_oddLeft(index) ==
  IF index % 2 = 1 THEN "left" ELSE "right"

(* index % 2 === 0 ? 'left' : 'right' *)
getAlternatingPageSide(index) ==
  IF index % 2 = 0 THEN "left" ELSE "right"

(* processImage(file, pageSide): the page it resolves with. *)
processImage(file, pageSide, pageIdCounter) ==
  [id |-> pageIdCounter + 1, type |-> "image", originalWidth |-> file.width,
   originalHeight |-> file.height, position |-> DefaultPosition,
   pageSide |-> pageSide]

(* processPdf(file, startIndex): one page per PDF page, i = 1..numPages. *)
processPdf(file, startIndex, pageIdCounter) ==
  [i \in 1..file.numPages |->
     [id |-> pageIdCounter + i, type |-> "pdf-page", originalWidth |-> file.width,
      originalHeight |-> file.height, position |-> DefaultPosition,
      pageSide |-> getAlternatingPageSide(startIndex + i - 1)]]

(* ---------------- previews: ContentPositionEditor, PagePreview ---------------- *)
(* The previews work in mm and multiply every length by one uniform       *)
(* factor (PREVIEW_SCALE, THUMBNAIL_SCALE px per mm) when styling; the    *)
(* lengths below are the mm values before that factor.                    *)

(* ContentPositionEditor contentAreaPreview: the green content area. *)
contentAreaPreview(binderType, paperSize, pageSide, enablePadding) ==
  LET spec == BINDER_SPECS[binderType]
      paper == PAPER_SIZES[paperSize]
      binderPaper == PAPER_SIZES[spec.paperSize]
      contentArea == getContentArea(binderType, paperSize, pageSide, enablePadding).area
  IN  [x |-> (paper.width - binderPaper.width) \div 2
               + (IF pageSide = "right" THEN contentArea.offsetX ELSE 0),
       y |-> (paper.height - binderPaper.height) \div 2,
       width |-> contentArea.width, height |-> contentArea.height]

(* PageThumbnail contentX, contentY, contentWidth, contentHeight. *)
PageThumbnail(binderType, paperSize, pageSide, enablePadding) ==
  LET spec == BINDER_SPECS[binderType]
      paper == PAPER_SIZES[paperSize]
      binderPaper == PAPER_SIZES[spec.paperSize]
      padding == IF enablePadding THEN 500 ELSE 0
      margin == spec.edgeDistance + spec.holeDiameter \div 2 + padding
  IN  [x |-> (paper.width - binderPaper.width) \div 2
               + (IF pageSide = "right" THEN margin ELSE 0),
       y |-> (paper.height - binderPaper.height) \div 2,
       width |-> binderPaper.width - margin, height |-> binderPaper.height]

HoleIndicators_sameEdge(binderType, paperSize, pageSide) ==
  LET spec == BINDER_SPECS[binderType]
      paper == PAPER_SIZES[paperSize]
      binderPaper == PAPER_SIZES[spec.paperSize]
      holePositions == getHolePositions(binderType, binderPaper.height)
  IN  [holeX |-> (paper.width - binderPaper.width) \div 2 + spec.edgeDistance,
       holeY |-> [i \in DOMAIN holePositions |->
                    (paper.height - binderPaper.height) \div 2 + holePositions[i]],
       holeSize |-> spec.holeDiameter]

(* HoleIndicators: the hole circles of a page, centre (holeX, holeY[i])   *)
(* from the sheet's top-left corner, diameter holeSize.                   *)
HoleIndicators(binderType, paperSize, pageSide) ==
  LET spec == BINDER_SPECS[binderType]
      paper == PAPER_SIZES[paperSize]
      binderPaper == PAPER_SIZES[spec.paperSize]
      holePositions == getHolePositions(binderType, binderPaper.height)
  IN  [holeX |-> IF pageSide = "left"
                 THEN (paper.width - binderPaper.width) \div 2
                        + binderPaper.width - spec.edgeDistance
                 ELSE (paper.width - binderPaper.width) \div 2 + spec.edgeDistance,
       holeY |-> [i \in DOMAIN holePositions |->
                    (paper.height - binderPaper.height) \div 2 + holePositions[i]],
       holeSize |-> spec.holeDiameter]

Min(a, b) == IF a <= b THEN a ELSE b
Max(a, b) == IF a >= b THEN a ELSE b

(* handleFitToArea and handleFillArea: pick decides fit (Math.min) or     *)
(* fill (Math.max); the scale is cut to a whole percent.  Both divide by  *)
(* the image's mm size.                                                   *)
centredAtScale(page, contentArea, scale) ==
  LET imgWidthMm == pxToMm(page.originalWidth, 150)
      imgHeightMm == pxToMm(page.originalHeight, 150)
      scaledWidth == (imgWidthMm * scale) \div 100
      scaledHeight == (imgHeightMm * scale) \div 100
  IN  [x |-> (contentArea.width - scaledWidth) \div 2,
       y |-> (contentArea.height - scaledHeight) \div 2,
       scale |-> scale]

handleFitToArea(page, contentArea) ==
  LET imgWidthMm == pxToMm(page.originalWidth, 150)
      imgHeightMm == pxToMm(page.originalHeight, 150)
      scaleX == (contentArea.width * 100) \div imgWidthMm
      scaleY == (contentArea.height * 100) \div imgHeightMm
  IN  centredAtScale(page, contentArea, Min(scaleX, scaleY))

handleFillArea(page, contentArea) ==
  LET imgWidthMm == pxToMm(page.originalWidth, 150)
      imgHeightMm == pxToMm(page.originalHeight, 150)
      scaleX == (contentArea.width * 100) \div imgWidthMm
      scaleY == (contentArea.height * 100) \div imgHeightMm
  IN  centredAtScale(page, contentArea, Max(scaleX, scaleY))

(* ---------------- App: state ---------------- *)

(* Most page ids handed out while the App runs (uploads stop after that), *)
(* most position changes made in the editor and most changes of a        *)
(* setting while it runs.                                                 *)
MaxPageIds == 2
MaxEditorSteps == 1
MaxSettingChanges == 1

(* selectedPageIndex / editingPageIndex === null *)
null == -1

(* The batches a user drops on the uploader: a PDF of two pages, or one   *)
(* or two images of a positive pixel size, an image that fails to decode  *)
(* being the last one read.                                               *)
Batches ==
  { fs \in FileLists :
      /\ Len(fs) \in 1..2
      /\ \A k \in DOMAIN fs :
           /\ fs[k].width > 0
           /\ fs[k].type = "application/pdf" =>
                fs[k].numPages = 2 /\ fs[k].ok /\ Len(fs) = 1
           /\ k < Len(fs) => fs[k].ok }

(* Binder standards picked in the selector: an A5 and an A4 standard. *)
AppBinderTypes == {"a5-20-hole", "a4-4-hole"}

(* useState initial values of App; position is the editor's own useState  *)
(* (page.position at mount, DefaultPosition while no editor is mounted),  *)
(* steps counts the position changes made in the editor so far, changes   *)
(* the changes of a setting.                                              *)
AppInit ==
  [pages |-> <<>>, binderType |-> "a5-20-hole", paperSize |-> "A4",
   enablePadding |-> TRUE, isProcessing |-> FALSE, isGenerating |-> FALSE,
   selectedPageIndex |-> null, editingPageIndex |-> null,
   position |-> DefaultPosition, steps |-> 0, changes |-> 0]

(* editingPage = editingPageIndex !== null ? pages[editingPageIndex] : null; *)
(* the editor is rendered when it is not null / undefined.                  *)
editorOpen(a) ==
  a.editingPageIndex # null /\ a.editingPageIndex < Len(a.pages)

(* ---------------- the calls ---------------- *)

Init ==
  /\ call = NoCall
  /\ ret = NoRet
  /\ gen = GenIdle
  /\ ingest = IngestIdle
  /\ app = AppInit

(* spec.getHolePositions(pageHeight) on a catalog entry *)
CallGetHolePositions(type, h) ==
  /\ call' = [NoCall EXCEPT !.op = "getHolePositions", !.binderType = type,
                            !.pageHeight = h * 100]
  /\ ret' = [NoRet EXCEPT !.kind = "return",
                          !.holes = getHolePositions(type, h * 100)]
  /\ UNCHANGED <<gen, ingest, app>>

(* getBinderSpec(type) *)
CallGetBinderSpec(type) ==
  /\ call' = [NoCall EXCEPT !.op = "getBinderSpec", !.binderType = type]
  /\ ret' = [NoRet EXCEPT !.kind = "return", !.spec = getBinderSpec(type)]
  /\ UNCHANGED <<gen, ingest, app>>

(* getContentArea(binderType, paperSize, pageSide, enablePadding) *)
CallGetContentArea(type, paperSize, pageSide, enablePadding) ==
  LET r == getContentArea(type, paperSize, pageSide, enablePadding)
  IN  /\ call' = [NoCall EXCEPT !.op = "getContentArea", !.binderType = type,
                                !.paperSize = paperSize, !.pageSide = pageSide,
                                !.enablePadding = enablePadding]
      /\ ret' = [NoRet EXCEPT !.kind = r.kind, !.error = r.error,
                              !.area = r.area, !.branch = r.branch]
      /\ UNCHANGED <<gen, ingest, app>>

Next ==
  \/ \E type \in BinderType, h \in MinHeight..MaxHeight :
       CallGetHolePositions(type, h)
  \/ \E type \in BinderType \cup UnknownIds : CallGetBinderSpec(type)
  \/ \E type \in BinderType \cup UnknownIds, paperSize \in PaperSize,
        pageSide \in PageSide, enablePadding \in BOOLEAN :
       CallGetContentArea(type, paperSize, pageSide, enablePadding)

Spec == Init /\ [][Next]_vars

TypeOK ==
  /\ call.op \in {"none", "getHolePositions", "getBinderSpec", "getContentArea"}
  /\ ret.kind \in {"none", "return", "throw"}
  /\ ret.branch \in {"none", "same", "a5OnA4", "default"}

(* ---------------- hole positions: C1 - C4 ---------------- *)

(* C1: for every catalog standard and every sheet height in 100..400 mm,  *)
(* getHolePositions returns exactly holeCount values and the sequence is  *)
(* non-decreasing from top to bottom.                                     *)
C1_HoleCountAndAscending ==
  (call.op = "getHolePositions" /\ ret.kind = "return") =>
    /\ Len(ret.holes) = BINDER_SPECS[call.binderType].holeCount
    /\ \A i \in 1..(Len(ret.holes) - 1) : ret.holes[i] <= ret.holes[i + 1]

C1_Witness ==
  /\ call.op = "getHolePositions"
  /\ call.binderType = "a5-20-hole"
  /\ call.pageHeight = 21000
  /\ Len(ret.holes) = 20
  /\ ret.holes[1] < ret.holes[20]

(* C2: for every catalog standard and sheet height h the hole centres are *)
(* symmetric about h/2: positions[i] + positions[holeCount-1-i] = h.      *)
C2_SymmetricAboutCentre ==
  (call.op = "getHolePositions" /\ ret.kind = "return") =>
    LET n == BINDER_SPECS[call.binderType].holeCount
    IN  /\ n <= Len(ret.holes)
        /\ \A i \in 1..n : ret.holes[i] + ret.holes[n + 1 - i] = call.pageHeight

C2_Witness ==
  /\ call.op = "getHolePositions"
  /\ call.binderType = "a5-6-hole-filofax"
  /\ call.pageHeight = 29700
  /\ Len(ret.holes) = 6
  /\ ret.holes[3] # ret.holes[4]
  /\ ret.holes[3] + ret.holes[4] = 29700

(* C3: the evenly spaced standards (20-hole N=20 P=9.7, 2-hole N=2 P=80,  *)
(* 4-hole N=4 P=80) return hole[i] = (h - P*(N-1))/2 + i*P for i in       *)
(* 0..N-1; 20-hole at h=210 starts at 12.85 and ends at 197.15, and       *)
(* 2-hole at h=297 is {108.5, 188.5}.                                     *)
C3_EvenlySpaced ==
  (call.op = "getHolePositions" /\ ret.kind = "return"
     /\ call.binderType \in {"a5-20-hole", "a5-2-hole", "a4-4-hole"}) =>
    LET N == CASE call.binderType = "a5-20-hole" -> 20
               [] call.binderType = "a5-2-hole" -> 2
               [] call.binderType = "a4-4-hole" -> 4
        P == CASE call.binderType = "a5-20-hole" -> 970
               [] call.binderType = "a5-2-hole" -> 8000
               [] call.binderType = "a4-4-hole" -> 8000
        h == call.pageHeight
    IN  /\ Len(ret.holes) = N
        /\ \A i \in 0..(N - 1) :
             2 * (ret.holes[i + 1] - i * P) = h - P * (N - 1)
        /\ (call.binderType = "a5-20-hole" /\ h = 21000) =>
             (ret.holes[1] = 1285 /\ ret.holes[20] = 19715)
        /\ (call.binderType = "a5-2-hole" /\ h = 29700) =>
             ret.holes = <<10850, 18850>>

C3_Witness ==
  /\ call.op = "getHolePositions"
  /\ call.binderType = "a5-2-hole"
  /\ call.pageHeight = 29700
  /\ ret.holes = <<10850, 18850>>

(* C4: the two 6-hole standards (P=19; G=50.8 Filofax, G=70 standard)     *)
(* return {t-P, t, t+P, b-P, b, b+P} with t = h/2 - G/2 - P and           *)
(* b = h/2 + G/2 + P, so the two innermost holes are exactly G apart;     *)
(* Filofax at h=210 is {41.6, 60.6, 79.6, 130.4, 149.4, 168.4}.           *)
C4_SixHoleGroups ==
  (call.op = "getHolePositions" /\ ret.kind = "return"
     /\ call.binderType \in {"a5-6-hole-filofax", "a5-6-hole-standard"}) =>
    LET P == 1900
        G == IF call.binderType = "a5-6-hole-filofax" THEN 5080 ELSE 7000
        h == call.pageHeight
        t2 == h - G - 2 * P
        b2 == h + G + 2 * P
        H == ret.holes
    IN  /\ Len(H) = 6
        /\ 2 * H[1] = t2 - 2 * P /\ 2 * H[2] = t2 /\ 2 * H[3] = t2 + 2 * P
        /\ 2 * H[4] = b2 - 2 * P /\ 2 * H[5] = b2 /\ 2 * H[6] = b2 + 2 * P
        /\ H[4] - H[3] = G
        /\ (call.binderType = "a5-6-hole-filofax" /\ h = 21000) =>
             H = <<4160, 6060, 7960, 13040, 14940, 16840>>

C4_Witness ==
  /\ call.op = "getHolePositions"
  /\ call.binderType = "a5-6-hole-standard"
  /\ call.pageHeight = 21000
  /\ Len(ret.holes) = 6
  /\ ret.holes[4] - ret.holes[3] = 7000

(* ---------------- content area: C5 - C10 ---------------- *)

(* C5: for every catalog standard, target size, side and padding flag,    *)
(* getContentArea returns width = nativeWidth - holeMargin and            *)
(* height = nativeHeight, with holeMargin = edgeDistance + holeDiameter/2 *)
(* + (5 if padding); 20-hole on A5, left, no padding gives                *)
(* {width 139.5, height 210, offsetX 0, offsetY 0}.                       *)
C5_WidthAndHeight ==
  (call.op = "getContentArea" /\ call.binderType \in BinderType) =>
    LET std == BINDER_SPECS[call.binderType]
        native == PAPER_SIZES[std.paperSize]
        margin2 == 2 * std.edgeDistance + std.holeDiameter
                     + (IF call.enablePadding THEN 1000 ELSE 0)
    IN  /\ ret.kind = "return"
        /\ 2 * ret.area.width = 2 * native.width - margin2
        /\ ret.area.height = native.height
        /\ (call.binderType = "a5-20-hole" /\ call.paperSize = "A5"
              /\ call.pageSide = "left" /\ ~call.enablePadding) =>
             ret.area = [width |-> 13950, height |-> 21000,
                         offsetX |-> 0, offsetY |-> 0]

C5_Witness ==
  /\ call.op = "getContentArea"
  /\ call.binderType = "a5-2-hole"
  /\ call.paperSize = "A4"
  /\ call.pageSide = "right"
  /\ call.enablePadding
  /\ ret.area.width = 12800
  /\ ret.area.height = 21000

(* C6: when the target size is the standard's native size, offsetY = 0,   *)
(* offsetX = 0 for side left and offsetX = holeMargin for side right, so  *)
(* the two offsetX values add up to holeMargin.                           *)
C6_SameSizeOffsets ==
  (call.op = "getContentArea" /\ call.binderType \in BinderType
     /\ call.paperSize = BINDER_SPECS[call.binderType].paperSize) =>
    LET std == BINDER_SPECS[call.binderType]
        margin2 == 2 * std.edgeDistance + std.holeDiameter
                     + (IF call.enablePadding THEN 1000 ELSE 0)
    IN  /\ ret.kind = "return"
        /\ ret.area.offsetY = 0
        /\ call.pageSide = "left" => ret.area.offsetX = 0
        /\ call.pageSide = "right" => 2 * ret.area.offsetX = margin2

C6_Witness ==
  /\ call.op = "getContentArea"
  /\ call.binderType = "a4-4-hole"
  /\ call.paperSize = "A4"
  /\ call.pageSide = "right"
  /\ ~call.enablePadding
  /\ ret.area.offsetX = 1400
  /\ ret.area.offsetY = 0

(* C7: target A4 with a native-A5 standard centres the binder sheet:      *)
(* offsetY = (297 - 210)/2, offsetX = (210 - 148)/2 for side left and     *)
(* (210 - 148)/2 + holeMargin for side right.                             *)
C7_A5OnA4Offsets ==
  (call.op = "getContentArea" /\ call.binderType \in BinderType
     /\ call.paperSize = "A4"
     /\ BINDER_SPECS[call.binderType].paperSize = "A5") =>
    LET std == BINDER_SPECS[call.binderType]
        margin2 == 2 * std.edgeDistance + std.holeDiameter
                     + (IF call.enablePadding THEN 1000 ELSE 0)
    IN  /\ ret.kind = "return"
        /\ 2 * ret.area.offsetY = 29700 - 21000
        /\ call.pageSide = "left" => 2 * ret.area.offsetX = 21000 - 14800
        /\ call.pageSide = "right" =>
             2 * ret.area.offsetX = (21000 - 14800) + margin2

C7_Witness ==
  /\ call.op = "getContentArea"
  /\ call.binderType = "a5-20-hole"
  /\ call.paperSize = "A4"
  /\ call.pageSide = "right"
  /\ call.enablePadding
  /\ ret.area.offsetX = 4450
  /\ ret.area.offsetY = 4350

(* C8: with standard, target size and side held fixed, a call with the    *)
(* padding flag on returns a width exactly 5 mm smaller, and the same     *)
(* height, as the call with the flag off.                                 *)
C8_PaddingNarrowsByFive ==
  [][ ( /\ call.op = "getContentArea" /\ call'.op = "getContentArea"
        /\ call.binderType \in BinderType
        /\ call'.binderType = call.binderType
        /\ call'.paperSize = call.paperSize
        /\ call'.pageSide = call.pageSide
        /\ ~call.enablePadding /\ call'.enablePadding )
      => ( /\ ret'.kind = "return"
           /\ ret'.area.width = ret.area.width - 500
           /\ ret'.area.height = ret.area.height ) ]_vars

C8_Witness ==
  /\ call.op = "getContentArea"
  /\ call.binderType = "a5-6-hole-standard"
  /\ call.paperSize = "A5"
  /\ call.pageSide = "left"
  /\ call.enablePadding
  /\ ret.area.width = 12800

(* C9: looking up a binder id outside the five catalog entries fails with *)
(* an UnknownStandard error surfaced to the caller; no value (undefined,  *)
(* a default standard) is returned.                                       *)
C9_UnknownStandardSurfaced ==
  (call.op \in {"getBinderSpec", "getContentArea"}
     /\ call.binderType \notin BinderType) =>
    (ret.kind = "throw" /\ ret.error = "UnknownStandard")

(* C10: the fallback arm of the offset computation is never taken for a   *)
(* catalog standard with a target size in {A4, A5}.                       *)
C10_FallbackNeverTaken ==
  (call.op = "getContentArea" /\ call.binderType \in BinderType
     /\ call.paperSize \in PaperSize) =>
    ret.branch # "default"

(* C10 (amended): for a catalog standard and a target size in {A4, A5}    *)
(* the fallback arm is taken exactly when the standard's native size is   *)
(* A4 and the target is A5 (the 4-hole standard on A5 stock).             *)
C10_FallbackOnlyA4OnA5 ==
  (call.op = "getContentArea" /\ call.binderType \in BinderType
     /\ call.paperSize \in PaperSize) =>
    /\ ret.kind = "return"
    /\ ret.branch = "default" <=>
         (BINDER_SPECS[call.binderType].paperSize = "A4" /\ call.paperSize = "A5")

C10_Witness ==
  /\ call.op = "getContentArea"
  /\ call.binderType = "a4-4-hole"
  /\ call.paperSize = "A5"
  /\ call.pageSide = "right"
  /\ ret.kind = "return"
  /\ ret.branch = "default"
  /\ ret.area.offsetY = 0

(* ---------------- generatePdf: the two variants, step by step ---------------- *)

(* generatePdf with the 2-up decision: set-up down to the choice of mode. *)
GeneratePdfTwoUpVariant(pages, binderType, paperSize, pageSide, enablePadding) ==
  /\ gen.pc = "idle"
  /\ gen' = [GenIdle EXCEPT !.pc = "loop", !.variant = "twoUp", !.pages = pages,
                            !.binderType = binderType, !.paperSize = paperSize,
                            !.pageSide = pageSide, !.enablePadding = enablePadding,
                            !.use2Up = use2Up(pages, binderType, paperSize)]
  /\ UNCHANGED <<call, ret, ingest, app>>

(* generatePdf with per-page sides: options.pageSide is not read. *)
GeneratePdfPerPageVariant(pages, binderType, paperSize, pageSide, enablePadding) ==
  /\ gen.pc = "idle"
  /\ gen' = [GenIdle EXCEPT !.pc = "loop", !.variant = "perPage", !.pages = pages,
                            !.binderType = binderType, !.paperSize = paperSize,
                            !.pageSide = pageSide, !.enablePadding = enablePadding]
  /\ UNCHANGED <<call, ret, ingest, app>>

(* for (const contentPage of pages) of the 2-up capable variant, single mode *)
SingleModeLoop ==
  /\ gen.pc = "loop" /\ gen.variant = "twoUp" /\ ~gen.use2Up
  /\ gen.i < Len(gen.pages)
  /\ gen' = [gen EXCEPT !.i = gen.i + 1,
               !.doc = gen.doc \o singleSheets(gen.pages[gen.i + 1], gen.binderType,
                                               gen.paperSize, gen.pageSide,
                                               gen.enablePadding)]
  /\ UNCHANGED <<call, ret, ingest, app>>

(* for (const contentPage of pages) of the per-page-side variant *)
PerPageSideLoop ==
  /\ gen.pc = "loop" /\ gen.variant = "perPage"
  /\ gen.i < Len(gen.pages)
  /\ gen' = [gen EXCEPT !.i = gen.i + 1,
               !.doc = gen.doc \o singleSheets(gen.pages[gen.i + 1], gen.binderType,
                                               gen.paperSize,
                                               gen.pages[gen.i + 1].pageSide,
                                               gen.enablePadding)]
  /\ UNCHANGED <<call, ret, ingest, app>>

(* for (let i = 0; i < pages.length; i += 2) of generate2UpPages *)
generate2UpPages ==
  /\ gen.pc = "loop" /\ gen.variant = "twoUp" /\ gen.use2Up
  /\ gen.i < Len(gen.pages)
  /\ gen' = [gen EXCEPT !.i = gen.i + 2,
               !.doc = gen.doc \o twoUpSheets(gen.pages, gen.i, gen.binderType,
                                              gen.pageSide, gen.enablePadding)]
  /\ UNCHANGED <<call, ret, ingest, app>>

(* return pdfDoc.save() once the loop has run out of pages *)
Save ==
  /\ gen.pc = "loop"
  /\ gen.i >= Len(gen.pages)
  /\ gen' = [gen EXCEPT !.pc = "done"]
  /\ UNCHANGED <<call, ret, ingest, app>>

(* The caller takes the bytes (download link) and the job is over. *)
Download ==
  /\ gen.pc = "done"
  /\ gen' = GenIdle
  /\ UNCHANGED <<call, ret, ingest, app>>

NextPdf ==
  \/ \E pages \in PageLists, binderType \in BinderType, paperSize \in PaperSize,
        pageSide \in PageSide, enablePadding \in BOOLEAN :
       GeneratePdfTwoUpVariant(pages, binderType, paperSize, pageSide, enablePadding)
  \/ \E pages \in PageLists, binderType \in BinderType, paperSize \in PaperSize,
        pageSide \in PageSide, enablePadding \in BOOLEAN :
       GeneratePdfPerPageVariant(pages, binderType, paperSize, pageSide, enablePadding)
  \/ SingleModeLoop
  \/ PerPageSideLoop
  \/ generate2UpPages
  \/ Save
  \/ Download

SpecPdf == Init /\ [][NextPdf]_vars

(* ---------------- processFiles, file by file ---------------- *)

(* processFiles(files, startIndex): allPages = [], currentIndex = startIndex *)
ProcessFiles(files, startIndex) ==
  /\ ingest.pc = "idle"
  /\ ingest' = [IngestIdle EXCEPT !.pc = "loop", !.files = files,
                                  !.startIndex = startIndex,
                                  !.currentIndex = startIndex]
  /\ UNCHANGED <<call, ret, gen, app>>

(* fileType === 'application/pdf': await processPdf(file, currentIndex) *)
ProcessPdfFile ==
  /\ ingest.pc = "loop" /\ ingest.file < Len(ingest.files)
  /\ LET file == ingest.files[ingest.file + 1]
         pdfPages == processPdf(file, ingest.currentIndex, ingest.pageIdCounter)
     IN  /\ file.type = "application/pdf"
         /\ ingest' =
              IF file.ok
              THEN [ingest EXCEPT !.file = ingest.file + 1,
                                  !.allPages = ingest.allPages \o pdfPages,
                                  !.currentIndex = ingest.currentIndex + Len(pdfPages),
                                  !.pageIdCounter = ingest.pageIdCounter + Len(pdfPages)]
              ELSE [ingest EXCEPT !.pc = "rejected"]
  /\ UNCHANGED <<call, ret, gen, app>>

(* fileType.startsWith('image/'): await processImage(file, side of currentIndex) *)
ProcessImageFile ==
  /\ ingest.pc = "loop" /\ ingest.file < Len(ingest.files)
  /\ LET file == ingest.files[ingest.file + 1]
         imagePage == processImage(file, getAlternatingPageSide(ingest.currentIndex),
                                   ingest.pageIdCounter)
     IN  /\ file.type = "image/png"
         /\ ingest' =
              IF file.ok
              THEN [ingest EXCEPT !.file = ingest.file + 1,
                                  !.allPages = Append(ingest.allPages, imagePage),
                                  !.currentIndex = ingest.currentIndex + 1,
                                  !.pageIdCounter = ingest.pageIdCounter + 1]
              ELSE [ingest EXCEPT !.pc = "rejected"]
  /\ UNCHANGED <<call, ret, gen, app>>

(* else: console.warn, the file yields no page and no index *)
SkipUnsupportedFile ==
  /\ ingest.pc = "loop" /\ ingest.file < Len(ingest.files)
  /\ ingest.files[ingest.file + 1].type \notin {"application/pdf", "image/png"}
  /\ ingest' = [ingest EXCEPT !.file = ingest.file + 1]
  /\ UNCHANGED <<call, ret, gen, app>>

(* return allPages *)
ProcessFilesReturn ==
  /\ ingest.pc = "loop" /\ ingest.file >= Len(ingest.files)
  /\ ingest' = [ingest EXCEPT !.pc = "resolved"]
  /\ UNCHANGED <<call, ret, gen, app>>

NextIngest ==
  \/ \E files \in FileLists, startIndex \in 0..MaxStartIndex :
       ProcessFiles(files, startIndex)
  \/ ProcessPdfFile
  \/ ProcessImageFile
  \/ SkipUnsupportedFile
  \/ ProcessFilesReturn

SpecIngest == Init /\ [][NextIngest]_vars

(* ---------------- layout planner: C12 - C17 ---------------- *)

(* C12: PDF generation packs 2-up if and only if the target is A4, the    *)
(* standard's native size is A5 and there are at least 2 content pages;   *)
(* in every other case it is in single mode (one page per content sheet). *)
C12_TwoUpIffEligible ==
  gen.pc = "done" =>
    LET n == Len(gen.pages)
        eligible == /\ gen.paperSize = "A4"
                    /\ BINDER_SPECS[gen.binderType].paperSize = "A5"
                    /\ n >= 2
        contentSheets == {s \in 1..Len(gen.doc) : gen.doc[s].kind = "content"}
    IN  IF eligible
        THEN /\ Cardinality(contentSheets) = (n + 1) \div 2
             /\ \E s \in contentSheets : Len(gen.doc[s].images) = 2
        ELSE /\ Cardinality(contentSheets) = n
             /\ \A s \in contentSheets : Len(gen.doc[s].images) = 1

(* C13: with target A4, native A5 and n pages the planner emits exactly   *)
(* ceil(n/2) sheet pairs, each a content sheet followed by an outline     *)
(* sheet, and the last pair's bottom slot is empty iff n is odd.          *)
C13_CeilHalfSheetPairs ==
  (gen.pc = "done" /\ gen.paperSize = "A4"
     /\ BINDER_SPECS[gen.binderType].paperSize = "A5") =>
    LET n == Len(gen.pages)
        pairs == (n + 1) \div 2
    IN  /\ Len(gen.doc) = 2 * pairs
        /\ \A s \in 1..pairs :
             gen.doc[2 * s - 1].kind = "content" /\ gen.doc[2 * s].kind = "outline"
        /\ n > 0 => (Len(gen.doc[2 * pairs - 1].images) = 1 <=> n % 2 = 1)

(* C14: in single mode the output grows in input order, two logical pages *)
(* per content page: after k pages, output page 2k is the content sheet   *)
(* of input page k and page 2k+1 its outline-only sheet; the finished     *)
(* document has exactly 2n pages.                                         *)
C14_SingleModeOrder ==
  (gen.pc \in {"loop", "done"} /\ ~gen.use2Up) =>
    /\ Len(gen.doc) = 2 * gen.i
    /\ gen.pc = "done" => gen.i = Len(gen.pages)
    /\ \A k \in 1..gen.i :
         LET content == gen.doc[2 * k - 1]
             outline == gen.doc[2 * k]
         IN  /\ content.kind = "content"
             /\ Len(content.images) = 1
             /\ content.images[1].page = gen.pages[k].id
             /\ content.outlines = <<>>
             /\ outline.kind = "outline"
             /\ outline.images = <<>>
             /\ Len(outline.outlines) = 1

C14_Witness ==
  /\ gen.pc = "done"
  /\ ~gen.use2Up
  /\ Len(gen.pages) = 3
  /\ Len(gen.doc) = 6
  /\ gen.doc[5].images[1].page = 3
  /\ gen.doc[6].kind = "outline"

(* C15: in 2-up mode the outline of the page in the top sub-area is drawn *)
(* at the top sub-area's vertical position and the outline of the page in *)
(* the bottom sub-area at the bottom one; with an empty bottom slot the   *)
(* only outline is at the top position.                                   *)
C15_OutlineKeepsVerticalPosition ==
  gen.use2Up =>
    \A s \in 1..(Len(gen.doc) \div 2) :
      LET content == gen.doc[2 * s - 1]
          outline == gen.doc[2 * s]
          topY == (29700 - 21000) * 18
      IN  /\ Len(outline.outlines) = Len(content.images)
          /\ outline.outlines[1].rect.y = topY
          /\ Len(outline.outlines) = 2 => outline.outlines[2].rect.y = 0

(* C16: in 2-up mode every outline trim rectangle on the back sheet       *)
(* starts at x = sheetWidth - subAreaWidth (210 - 148 mm) and is as wide  *)
(* as the sub-area: the mirror image, about the sheet's vertical centre   *)
(* line, of the content-side sub-area that starts at x = 0.               *)
C16_OutlineMirroredHorizontally ==
  gen.use2Up =>
    \A s \in 1..(Len(gen.doc) \div 2) :
      LET outline == gen.doc[2 * s]
      IN  /\ Len(outline.outlines) >= 1
          /\ \A j \in 1..Len(outline.outlines) :
               /\ outline.outlines[j].rect.x = (21000 - 14800) * 18
               /\ outline.outlines[j].rect.width = 14800 * 18
               /\ outline.outlines[j].rect.x + outline.outlines[j].rect.width
                    = outline.width - 0

C16_Witness ==
  /\ gen.pc = "done"
  /\ gen.use2Up
  /\ Len(gen.pages) = 3
  /\ Len(gen.doc) = 4
  /\ Len(gen.doc[2].outlines) = 2
  /\ gen.doc[2].outlines[2].rect.x = 111600
  /\ gen.doc[4].outlines[1].rect.x = 111600

(* C17: in every layout, single and 2-up, a content page's hole-margin    *)
(* offset and the hole edge of its outline follow that page's own side,   *)
(* whatever the sides of other pages and the global pageSide option.      *)
C17_OwnSideGovernsPage ==
  gen.pc \in {"loop", "done"} =>
    \A s \in 1..(Len(gen.doc) \div 2) :
      LET content == gen.doc[2 * s - 1]
          outline == gen.doc[2 * s]
          std == BINDER_SPECS[gen.binderType]
          margin == std.edgeDistance + std.holeDiameter \div 2
                      + (IF gen.enablePadding THEN 500 ELSE 0)
          base == IF ~gen.use2Up /\ gen.paperSize = "A4" /\ std.paperSize = "A5"
                  THEN (21000 - 14800) \div 2 ELSE 0
      IN  \A j \in 1..Len(content.images) :
            LET page == gen.pages[content.images[j].page]
            IN  /\ content.images[j].x =
                     18 * (base + page.position.x
                             + (IF page.pageSide = "right" THEN margin ELSE 0))
                /\ j <= Len(outline.outlines)
                /\ outline.outlines[j].pageSide = page.pageSide

(* ---------------- outline renderer: C18 - C19 ---------------- *)

C19_HolesMirrorFrontSheet ==
  \A s \in 1..(Len(gen.doc) \div 2) :
    LET outline == gen.doc[2 * s]
        std == BINDER_SPECS[gen.binderType]
        native == PAPER_SIZES[std.paperSize]
        base == IF ~gen.use2Up /\ gen.paperSize = "A4" /\ std.paperSize = "A5"
                THEN (21000 - 14800) \div 2 ELSE 0
    IN  \A j \in 1..Len(outline.outlines) :
          LET o == outline.outlines[j]
              frontHoleX == IF o.pageSide = "left"
                            THEN base + native.width - std.edgeDistance
                            ELSE base + std.edgeDistance
          IN  \A i \in 1..Len(o.circles) :
                o.circles[i].x = outline.width - 18 * frontHoleX

(* ---------------- ingestion: C20 ---------------- *)

(* C20: within one batch started at index s, the k-th content page        *)
(* produced (k from 0, every PDF page and every image counted, skipped    *)
(* unsupported files not counted) gets side left when s + k is even and   *)
(* right when s + k is odd.                                               *)
C20_AlternatingSides ==
  ingest.pc # "idle" =>
    \A k \in 0..(Len(ingest.allPages) - 1) :
      ingest.allPages[k + 1].pageSide =
        (IF (ingest.startIndex + k) % 2 = 0 THEN "left" ELSE "right")

C20_Witness ==
  /\ ingest.pc = "resolved"
  /\ ingest.startIndex = 1
  /\ Len(ingest.files) = 3
  /\ ingest.files[1].type = "text/plain"
  /\ ingest.files[2].type = "application/pdf"
  /\ ingest.files[3].type = "image/png"
  /\ Len(ingest.allPages) = 3
  /\ ingest.allPages[1].pageSide = "right"
  /\ ingest.allPages[2].pageSide = "left"
  /\ ingest.allPages[3].pageSide = "right"

(* ---------------- App: handlers ---------------- *)

RECURSIVE numPagesOf(_)
(* Pages a batch yields at most (the ids it consumes). *)
numPagesOf(files) ==
  IF files = <<>> THEN 0
  ELSE (IF Head(files).ok THEN Head(files).numPages ELSE 0)
         + numPagesOf(Tail(files))

(* No upload in flight; the module-level pageIdCounter keeps its value. *)
IngestDone == [IngestIdle EXCEPT !.pageIdCounter = ingest.pageIdCounter]

(* handleFilesSelected up to the await: setIsProcessing(true) and         *)
(* processFiles(files, pages.length) with the pages.length of this render; *)
(* the uploader takes no files while isProcessing, and the open editor's  *)
(* overlay covers it.                                                     *)
HandleFilesSelected(files) ==
  /\ ~app.isProcessing /\ ingest.pc = "idle" /\ ~editorOpen(app)
  /\ ingest.pageIdCounter + numPagesOf(files) <= MaxPageIds
  /\ app' = [app EXCEPT !.isProcessing = TRUE]
  /\ ingest' = [IngestDone EXCEPT !.pc = "loop", !.files = files,
                                  !.startIndex = Len(app.pages),
                                  !.currentIndex = Len(app.pages)]
  /\ UNCHANGED <<call, ret, gen>>

(* after the await: setPages(prev => [...prev, ...newPages]); finally *)
UploadResolved ==
  /\ app.isProcessing /\ ingest.pc = "resolved"
  /\ app' = [app EXCEPT !.pages = app.pages \o ingest.allPages,
                        !.isProcessing = FALSE]
  /\ ingest' = IngestDone
  /\ UNCHANGED <<call, ret, gen>>

uploadRejected_keepsPartial ==
  [app EXCEPT !.pages = app.pages \o ingest.allPages, !.isProcessing = FALSE]

(* catch: console.error, alert; finally: setIsProcessing(false) *)
uploadRejected ==
  [app EXCEPT !.isProcessing = FALSE]

UploadRejected ==
  /\ app.isProcessing /\ ingest.pc = "rejected"
  /\ app' = uploadRejected
  /\ ingest' = IngestDone
  /\ UNCHANGED <<call, ret, gen>>

handleRemovePage_resetsPositions(index) ==
  [app EXCEPT !.pages = [k \in 1..(Len(app.pages) - 1) |->
                           [(IF k < index + 1 THEN app.pages[k]
                             ELSE app.pages[k + 1])
                              EXCEPT !.position = DefaultPosition]],
              !.selectedPageIndex = null, !.editingPageIndex = null,
              !.position = DefaultPosition]

(* handleRemovePage: prev.filter((_, i) => i !== index), selection cleared *)
handleRemovePage(index) ==
  [app EXCEPT !.pages = [k \in 1..(Len(app.pages) - 1) |->
                           IF k < index + 1 THEN app.pages[k]
                           ELSE app.pages[k + 1]],
              !.selectedPageIndex = null, !.editingPageIndex = null,
              !.position = DefaultPosition]

HandleRemovePage(index) ==
  /\ index \in 0..(Len(app.pages) - 1)
  /\ app' = handleRemovePage(index)
  /\ UNCHANGED <<call, ret, gen, ingest>>

(* handleSelectPage: a click on a thumbnail, which the open editor's      *)
(* full-window overlay covers; the editor mounts with page.position       *)
HandleSelectPage(index) ==
  /\ ~editorOpen(app)
  /\ index \in 0..(Len(app.pages) - 1)
  /\ app' = [app EXCEPT !.selectedPageIndex = index, !.editingPageIndex = index,
                        !.position = app.pages[index + 1].position]
  /\ UNCHANGED <<call, ret, gen, ingest>>

handleApply_leavesOpen ==
  [app EXCEPT !.pages[app.editingPageIndex + 1].position = app.position]

(* handleApply: onPositionChange(position) (handlePositionChange), then   *)
(* onClose()                                                              *)
handleApply ==
  [app EXCEPT !.pages[app.editingPageIndex + 1].position = app.position,
              !.selectedPageIndex = null, !.editingPageIndex = null,
              !.position = DefaultPosition]

HandleApply ==
  /\ editorOpen(app)
  /\ app' = handleApply
  /\ UNCHANGED <<call, ret, gen, ingest>>

(* Cancel and the close button: onClose() *)
EditorClose ==
  /\ editorOpen(app)
  /\ app' = [app EXCEPT !.selectedPageIndex = null, !.editingPageIndex = null,
                        !.position = DefaultPosition]
  /\ UNCHANGED <<call, ret, gen, ingest>>

(* handleMouseDown, handleMouseMove, handleMouseUp: one drag to (newX, newY) *)
HandleMouseMove(newX, newY) ==
  /\ editorOpen(app)
  /\ app.steps < MaxEditorSteps
  /\ app' = [app EXCEPT !.position.x = newX, !.position.y = newY,
                        !.steps = app.steps + 1]
  /\ UNCHANGED <<call, ret, gen, ingest>>

HandleScaleChange(newScale) ==
  /\ editorOpen(app)
  /\ app.steps < MaxEditorSteps
  /\ app' = [app EXCEPT !.position.scale = newScale, !.steps = app.steps + 1]
  /\ UNCHANGED <<call, ret, gen, ingest>>

(* The content area the open editor computes for its page. *)
editorContentArea ==
  getContentArea(app.binderType, app.paperSize,
                 app.pages[app.editingPageIndex + 1].pageSide,
                 app.enablePadding).area

HandleFitToArea ==
  /\ editorOpen(app)
  /\ app.steps < MaxEditorSteps
  /\ app' = [app EXCEPT !.position =
               handleFitToArea(app.pages[app.editingPageIndex + 1], editorContentArea),
               !.steps = app.steps + 1]
  /\ UNCHANGED <<call, ret, gen, ingest>>

HandleFillArea ==
  /\ editorOpen(app)
  /\ app.steps < MaxEditorSteps
  /\ app' = [app EXCEPT !.position =
               handleFillArea(app.pages[app.editingPageIndex + 1], editorContentArea),
               !.steps = app.steps + 1]
  /\ UNCHANGED <<call, ret, gen, ingest>>

HandleReset ==
  /\ editorOpen(app)
  /\ app.steps < MaxEditorSteps
  /\ app' = [app EXCEPT !.position = DefaultPosition, !.steps = app.steps + 1]
  /\ UNCHANGED <<call, ret, gen, ingest>>

(* handlePageSideChange(index, pageSide) *)
HandlePageSideChange(index, pageSide) ==
  /\ index \in 0..(Len(app.pages) - 1)
  /\ app' = [app EXCEPT !.pages[index + 1].pageSide = pageSide]
  /\ UNCHANGED <<call, ret, gen, ingest>>

(* handleGenerate up to the await, and its finally *)
HandleGenerate ==
  /\ Len(app.pages) > 0
  /\ app' = [app EXCEPT !.isGenerating = TRUE]
  /\ UNCHANGED <<call, ret, gen, ingest>>

GenerateFinished ==
  /\ app.isGenerating
  /\ app' = [app EXCEPT !.isGenerating = FALSE]
  /\ UNCHANGED <<call, ret, gen, ingest>>

handleClearAll_keepsSelection ==
  [app EXCEPT !.pages = <<>>]

(* handleClearAll: setPages([]), both indices null *)
handleClearAll ==
  [app EXCEPT !.pages = <<>>, !.selectedPageIndex = null,
              !.editingPageIndex = null, !.position = DefaultPosition]

(* The Clear all button shows when there are pages. *)
HandleClearAll ==
  /\ Len(app.pages) > 0
  /\ app' = handleClearAll
  /\ UNCHANGED <<call, ret, gen, ingest>>

setBinderType(binderType) ==
  /\ app.changes < MaxSettingChanges /\ binderType # app.binderType
  /\ app' = [app EXCEPT !.binderType = binderType, !.changes = app.changes + 1]
  /\ UNCHANGED <<call, ret, gen, ingest>>

setPaperSize(paperSize) ==
  /\ app.changes < MaxSettingChanges /\ paperSize # app.paperSize
  /\ app' = [app EXCEPT !.paperSize = paperSize, !.changes = app.changes + 1]
  /\ UNCHANGED <<call, ret, gen, ingest>>

setEnablePadding(enablePadding) ==
  /\ app.changes < MaxSettingChanges /\ enablePadding # app.enablePadding
  /\ app' = [app EXCEPT !.enablePadding = enablePadding, !.changes = app.changes + 1]
  /\ UNCHANGED <<call, ret, gen, ingest>>

NextApp ==
  \/ \E files \in Batches : HandleFilesSelected(files)
  \/ ProcessPdfFile
  \/ ProcessImageFile
  \/ ProcessFilesReturn
  \/ UploadResolved
  \/ UploadRejected
  \/ \E index \in 0..MaxPageIds : HandleRemovePage(index)
  \/ \E index \in 0..MaxPageIds : HandleSelectPage(index)
  \/ HandleApply
  \/ EditorClose
  \/ HandleMouseMove(EditedPosition.x, EditedPosition.y)
  \/ HandleScaleChange(EditedPosition.scale)
  \/ HandleFitToArea
  \/ HandleFillArea
  \/ HandleReset
  \/ \E index \in 0..MaxPageIds, pageSide \in PageSide :
       HandlePageSideChange(index, pageSide)
  \/ HandleGenerate
  \/ GenerateFinished
  \/ HandleClearAll
  \/ \E binderType \in AppBinderTypes : setBinderType(binderType)
  \/ \E paperSize \in PaperSize : setPaperSize(paperSize)
  \/ \E enablePadding \in BOOLEAN : setEnablePadding(enablePadding)

SpecApp == Init /\ [][NextApp]_vars


(* ---------------- ingestion and 2-up geometry: C21, C24 - C27 ---------------- *)

(* C21: a content page whose pixel width or height is zero or negative is *)
(* rejected (InvalidContentDimensions): it is never among the pages that  *)
(* processFiles collects for the page list.                               *)
C21_ZeroSizeNeverCollected ==
  \A k \in DOMAIN ingest.allPages :
    ingest.allPages[k].originalWidth > 0 /\ ingest.allPages[k].originalHeight > 0

(* The content page drawn as image j of 2-up content sheet d of gen.doc. *)
twoUpPageOf(d, j) == gen.pages[d - 1 + j]

(* The 2-up content sheets of the document written so far. *)
twoUpContentSheets ==
  { d \in DOMAIN gen.doc : gen.use2Up /\ gen.doc[d].kind = "content" }

(* C24: in 2-up mode each content page is placed with the native-size     *)
(* offsets at its sub-area origin: the sub-areas start at (0, sheetHeight *)
(* - nativeHeight) (top slot) and (0, 0) (bottom slot), the image's left  *)
(* edge is at subAreaX + position.x + (holeMargin if the page's side is   *)
(* right, else 0), and its top edge is position.y below the sub-area's    *)
(* top edge.                                                              *)
C24_TwoUpNativeOffsets ==
  \A d \in twoUpContentSheets :
    \A j \in DOMAIN gen.doc[d].images :
      LET page == twoUpPageOf(d, j)
          image == gen.doc[d].images[j]
          nativeHeight == mmToPoints(PAPER_SIZES["A5"].height)
          subAreaY == IF j = 1 THEN gen.doc[d].height - nativeHeight ELSE 0
          margin == mmToPoints(holeMargin(BINDER_SPECS[gen.binderType],
                                          gen.enablePadding))
      IN  /\ image.page = page.id
          /\ image.x = 0 + mmToPoints(page.position.x)
                         + (IF page.pageSide = "right" THEN margin ELSE 0)
          /\ image.y + image.height
               = subAreaY + nativeHeight - mmToPoints(page.position.y)

(* C25: in 2-up mode the top and the bottom sub-area of a sheet, on the   *)
(* content side and on the outline side, lie one above the other without  *)
(* overlapping, and both lie inside the A4 sheet.                         *)
C25_SubAreasDisjoint ==
  \A d \in DOMAIN gen.doc :
    LET sheet == gen.doc[d]
        nativeWidth == mmToPoints(PAPER_SIZES["A5"].width)
        nativeHeight == mmToPoints(PAPER_SIZES["A5"].height)
        areaTop(j) ==
          sheet.images[j].y + sheet.images[j].height
            + mmToPoints(gen.pages[d - 1 + j].position.y)
    IN  gen.use2Up =>
          /\ \A j \in DOMAIN sheet.images :
               /\ areaTop(j) <= sheet.height
               /\ areaTop(j) - nativeHeight >= 0
          /\ Len(sheet.images) = 2 => areaTop(2) <= areaTop(1) - nativeHeight
          /\ \A j \in DOMAIN sheet.outlines :
               LET rect == sheet.outlines[j].rect
               IN  /\ rect.x >= 0 /\ rect.x + rect.width <= sheet.width
                   /\ rect.y >= 0 /\ rect.y + rect.height <= sheet.height
          /\ Len(sheet.outlines) = 2 =>
               LET r1 == sheet.outlines[1].rect
                   r2 == sheet.outlines[2].rect
               IN  r1.y + r1.height <= r2.y \/ r2.y + r2.height <= r1.y

(* C26: for every catalog standard, side and padding flag, in the same-   *)
(* size and A5-on-A4 cases, every hole circle lies inside the binder      *)
(* sheet, none reaches into the content area getContentArea returns, and  *)
(* the horizontal clearance between circle and area is the padding.       *)
C26_HolesClearOfContent ==
  (call.op = "getContentArea" /\ ret.kind = "return"
     /\ ret.branch \in {"same", "a5OnA4"}) =>
    LET spec == BINDER_SPECS[call.binderType]
        paper == PAPER_SIZES[call.paperSize]
        binderPaper == PAPER_SIZES[spec.paperSize]
        sheetX == (paper.width - binderPaper.width) \div 2
        sheetY == (paper.height - binderPaper.height) \div 2
        holes == HoleIndicators(call.binderType, call.paperSize, call.pageSide)
        padding == IF call.enablePadding THEN 500 ELSE 0
    IN  /\ Len(holes.holeY) = spec.holeCount
        /\ 2 * (holes.holeX - sheetX) >= holes.holeSize
        /\ 2 * (sheetX + binderPaper.width - holes.holeX) >= holes.holeSize
        /\ \A i \in DOMAIN holes.holeY :
             /\ 2 * (holes.holeY[i] - sheetY) >= holes.holeSize
             /\ 2 * (sheetY + binderPaper.height - holes.holeY[i]) >= holes.holeSize
        /\ IF call.pageSide = "left"
           THEN 2 * (holes.holeX - (ret.area.offsetX + ret.area.width))
                  = holes.holeSize + 2 * padding
           ELSE 2 * (ret.area.offsetX - holes.holeX)
                  = holes.holeSize + 2 * padding

C26_Witness ==
  /\ call.op = "getContentArea"
  /\ call.binderType = "a5-6-hole-filofax"
  /\ call.paperSize = "A4"
  /\ call.pageSide = "left"
  /\ call.enablePadding
  /\ ret.branch = "a5OnA4"
  /\ HoleIndicators(call.binderType, call.paperSize, call.pageSide).holeX
       > ret.area.offsetX + ret.area.width

(* C27: for every standard, target size, side and padding flag the origin *)
(* of the content area shown by the position editor and by the page       *)
(* thumbnail equals, in mm from the sheet's top-left corner, the origin   *)
(* (offsetX, offsetY) that PDF generation places the page at.             *)
C27_PreviewOriginIsPdfOrigin ==
  (call.op = "getContentArea" /\ ret.kind = "return") =>
    LET editor == contentAreaPreview(call.binderType, call.paperSize,
                                     call.pageSide, call.enablePadding)
        thumbnail == PageThumbnail(call.binderType, call.paperSize,
                                   call.pageSide, call.enablePadding)
    IN  /\ editor.x = ret.area.offsetX /\ editor.y = ret.area.offsetY
        /\ thumbnail.x = ret.area.offsetX /\ thumbnail.y = ret.area.offsetY

(* ---------------- App: C22, C23, C28 - C30 ---------------- *)

(* The ids of the pages of a list. *)
idsOf(pages) == { pages[k].id : k \in DOMAIN pages }

(* pages without the page at 0-based index. *)
withoutIndex(pages, index) ==
  [k \in 1..(Len(pages) - 1) |-> IF k < index + 1 THEN pages[k] ELSE pages[k + 1]]

C23_PagesOnlyFromResolvedBatch ==
  /\ [](ingest.pc # "idle" => idsOf(ingest.allPages) \cap idsOf(app.pages) = {})
  /\ [](\A k \in DOMAIN app.pages : app.pages[k].id <= ingest.pageIdCounter)
  /\ [][/\ idsOf(app'.pages) \subseteq
             idsOf(app.pages)
               \cup (IF ingest.pc = "resolved" THEN idsOf(ingest.allPages) ELSE {})
        /\ (ingest.pc = "rejected" /\ ingest'.pc = "idle") =>
             app'.pages = app.pages]_vars

C23_Witness ==
  /\ ingest.pc = "rejected"
  /\ Len(ingest.allPages) = 1
  /\ Len(app.pages) = 1
  /\ app.isProcessing

(* C28: after any sequence of upload, remove, select, editor close,       *)
(* position apply, side toggle and clear-all, selectedPageIndex equals    *)
(* editingPageIndex and each is null or a valid index of the page list.   *)
C28_SelectionValid ==
  /\ app.selectedPageIndex = app.editingPageIndex
  /\ app.editingPageIndex = null
       \/ (0 <= app.editingPageIndex /\ app.editingPageIndex < Len(app.pages))

C28_Witness ==
  /\ app.selectedPageIndex = 1
  /\ app.editingPageIndex = 1
  /\ Len(app.pages) = 2
  /\ ingest.pc = "idle"

(* C29: drag, scale, fit, fill and reset in the position editor, followed *)
(* by Cancel or the close button, leave the page list unchanged; a page's *)
(* position is written only by Apply, once (the editor closes with it),   *)
(* with the editor's current position, to the page the editor is on.      *)
C29_PositionWrittenOnlyByApply ==
  [][/\ \A k \in DOMAIN app.pages, l \in DOMAIN app'.pages :
          (app'.pages[l].id = app.pages[k].id
             /\ app'.pages[l].position # app.pages[k].position) =>
            /\ editorOpen(app) /\ ~editorOpen(app')
            /\ k = app.editingPageIndex + 1 /\ l = k
            /\ app'.pages[l].position = app.position
     /\ (editorOpen(app) /\ editorOpen(app') /\ app'.position # app.position) =>
          app'.pages = app.pages]_vars

C29_Witness ==
  /\ Len(app.pages) = 2
  /\ app.pages[1].position = DefaultPosition
  /\ app.pages[2].position.scale # 100
  /\ ~editorOpen(app)

(* C30: under every interleaving of uploads with removals and clear-all   *)
(* (a removal while an upload is being processed included) each newly     *)
(* appended page has side left if the index it is inserted at is even     *)
(* and right if it is odd.                                                *)
C30_AppendedSidesFollowIndex ==
  [][Len(app'.pages) > Len(app.pages) =>
       \A k \in (Len(app.pages) + 1)..Len(app'.pages) :
         app'.pages[k].pageSide = getAlternatingPageSide(k - 1)]_vars

====
